---- MODULE Spec2Model ----
(***************************************************************************)
(* The `distance` command of tracs (src/tracs/distance.py): argument       *)
(* parsing, metadata loading, the per-alignment loop that calls the        *)
(* pairwise SNP engine and the transmission model, and the CSV writer.     *)
(*                                                                         *)
(* Python lists are 0-based; the sequences here are 1-based, so the list   *)
(* snp_dists[0..5] of the source is the tuple snp_dists[1..6] here and the *)
(* indices I, J held in it point into names[1..n].                         *)
(***************************************************************************)
EXTENDS Integers, Sequences, FiniteSets, TLC

(***************************************************************************)
(* Bounds of the model.                                                    *)
(***************************************************************************)
MaxMsa == 2      \* at most this many --msa files on the command line
MaxD == 2        \* largest explicit -D value tried
MaxK == 2        \* largest explicit -K value tried
MaxLen == 3      \* longest pair of sequences scanned on its own
MaxCutoff == 2   \* largest cutoff of a scan on its own
MaxRate == 2     \* largest rate of a truncation loop on its own
MaxCap == 2      \* largest cap below 100 of a truncation loop on its own

(***************************************************************************)
(* Program constants.                                                      *)
(***************************************************************************)
DefaultSnpThreshold == 2147483647
HardCapK == 100
DefaultPrecision == 1        \* 0.01, in hundredths
WindowSize == 2              \* width of the recombination window
Scale == 720                 \* fixed-point unit of the posterior weights

None == "None"

(***************************************************************************)
(* Python values that reach str(): an int, a float kept as the exact       *)
(* fraction n/d, or a str.                                                 *)
(***************************************************************************)
PyInt(n) == [t |-> "int", n |-> n, d |-> 1, s |-> ""]
PyFrac(n, d) == [t |-> "float", n |-> n, d |-> d, s |-> ""]
PyStr(s) == [t |-> "str", n |-> 0, d |-> 1, s |-> s]
NA == PyStr("NA")

\* str(x)
Str(x) ==
    CASE x.t = "str" -> x.s
      [] x.t = "int" -> ToString(x.n)
      [] OTHER -> ToString(x.n) \o "/" \o ToString(x.d)

\* str(int(x)) for a numeric x: int() truncates toward zero
StrInt(x) == ToString(x.n \div x.d)

\* a >= b of Python for an int a: "TypeError" when b is a str
IntGe(a, b) ==
    IF b.t = "str" THEN "TypeError"
    ELSE IF a * b.d >= b.n THEN "True" ELSE "False"

(***************************************************************************)
(* argparse type checkers.                                                 *)
(***************************************************************************)
\* a checker that lets 0 through
check_nonnegative_int(value) == IF value < 0 THEN "reject" ELSE "ok"

\* check_positive_int: "ok" when the value is returned, "reject" when
\* ArgumentTypeError is raised
check_positive_int(value) == IF value <= 0 THEN "reject" ELSE "ok"

\* a float checker that lets 0 through
check_nonnegative_float(value) == IF value < 0 THEN "reject" ELSE "ok"

\* check_positive_float, on rates and precision held as integers
check_positive_float(value) == IF value <= 0 THEN "reject" ELSE "ok"

(***************************************************************************)
(* The files of a run.  A multi-FASTA file is the sequence of its records; *)
(* "N" is an unresolved symbol.                                            *)
(***************************************************************************)
Rec(name, seq) == [name |-> name, seq |-> seq]

Fasta(path) ==
    CASE path = "A_combined.fasta" ->
           << Rec("s1", <<"A", "A", "A">>),
              Rec("s2", <<"A", "C", "A">>),
              Rec("s3", <<"C", "C", "N">>) >>
      [] path = "B.fasta" ->
           << Rec("s1", <<"A", "A", "C">>),
              Rec("s4", <<"C", "C", "C">>) >>
      [] path = "odd.fasta" ->
           << Rec("s2", <<"A", "C">>) >>
      [] path = "db.fasta" ->
           << Rec("d1", <<"C", "C", "A">>),
              Rec("d2", <<"A", "A", "A">>) >>
      [] OTHER -> << >>

MsaPaths == {"A_combined.fasta", "B.fasta", "odd.fasta"}
DbPath == "db.fasta"

\* os.path.basename(msa).split(".")[0], cut at the occurrences of "_combined"
StemTokens(path) ==
    CASE path = "A_combined.fasta" -> <<"A", "_combined">>
      [] path = "B.fasta" -> <<"B">>
      [] path = "odd.fasta" -> <<"odd">>
      [] OTHER -> <<"db">>

RECURSIVE Join(_)
Join(toks) == IF toks = << >> THEN "" ELSE Head(toks) \o Join(Tail(toks))

\* ref = basename(msa).split(".")[0].replace("_combined", "")
Ref(msa) == Join(SelectSeq(StemTokens(msa), LAMBDA tok : tok # "_combined"))

(***************************************************************************)
(* A metadata file is the sequence of its lines, a line the list of its    *)
(* comma-separated fields (line.strip().split(",")).                       *)
(***************************************************************************)
MetaFile(path) ==
    CASE path = "full.csv" ->
           << <<"id", "date">>,
              <<"s1", "2020-01-09">>,
              <<"s2", "2020-01-02">>,
              <<"s3", "2020-01-04">>,
              <<"s4", "2020-01-01">>,
              <<"d1", "2020-01-02">>,
              <<"d2", "2020-01-01">>,
              <<"s1", "2020-01-01">> >>
      [] path = "partial.csv" ->
           << <<"s3", "2020-01-04">>,
              <<"s1", "2020-01-01">>,
              <<"s2", "2020-01-02">>,
              <<"d1", "2020-01-02">> >>
      [] path = "baddate.csv" ->
           << <<"id", "date">>,
              <<"s1", "2020-01-01">>,
              <<"s2", "02/01/2020">> >>
      [] path = "blank.csv" ->
           << <<"id", "date">>,
              <<"s1", "2020-01-01">>,
              <<"">> >>
      [] OTHER -> << >>

MetaPaths == {"full.csv", "partial.csv", "baddate.csv", "blank.csv"}

\* date.fromisoformat: the day number of a well-formed date, -1 for ValueError
fromisoformat(str) ==
    CASE str = "2020-01-01" -> 1
      [] str = "2020-01-02" -> 2
      [] str = "2020-01-04" -> 4
      [] str = "2020-01-09" -> 9
      [] OTHER -> -1

\* a loader that leaves out the rows whose date does not parse
RECURSIVE LoadDatesSkip(_, _)
LoadDatesSkip(lines, dates) ==
    IF lines = << >> THEN [err |-> None, dates |-> dates]
    ELSE LET line == Head(lines) IN
         IF Len(line) < 2 THEN [err |-> "IndexError", dates |-> dates]
         ELSE IF fromisoformat(line[2]) < 0
              THEN LoadDatesSkip(Tail(lines), dates)
         ELSE LoadDatesSkip(Tail(lines),
                            [n \in DOMAIN dates \cup {line[1]} |->
                                IF n = line[1]
                                THEN <<line[2], fromisoformat(line[2])>>
                                ELSE dates[n]])

\* the loop of lines 149-151 over the lines after the first: the dict built,
\* or the exception raised at the first offending line
RECURSIVE LoadDates(_, _)
LoadDates(lines, dates) ==
    IF lines = << >> THEN [err |-> None, dates |-> dates]
    ELSE LET line == Head(lines) IN
         IF Len(line) < 2 THEN [err |-> "IndexError", dates |-> dates]
         ELSE IF fromisoformat(line[2]) < 0
              THEN [err |-> "ValueError", dates |-> dates]
         ELSE LoadDates(Tail(lines),
                        [n \in DOMAIN dates \cup {line[1]} |->
                            IF n = line[1]
                            THEN <<line[2], fromisoformat(line[2])>>
                            ELSE dates[n]])

EmptyDict == [n \in {} |-> <<"", 0>>]

\* a loader without next(infile): the first line is read as a data row
ReadMetadataKeepFirst(path) ==
    LET lines == MetaFile(path) IN
    IF lines = << >> THEN [err |-> "StopIteration", dates |-> EmptyDict]
    ELSE LoadDates(lines, EmptyDict)

\* lines 146-151: next(infile) drops the first line, then the loop
ReadMetadata(path) ==
    LET lines == MetaFile(path) IN
    IF lines = << >> THEN [err |-> "StopIteration", dates |-> EmptyDict]
    ELSE LoadDates(Tail(lines), EmptyDict)

(***************************************************************************)
(* The pairwise distance engine, pairsnp (a compiled extension).           *)
(***************************************************************************)
Resolved(x) == x \in {"A", "C", "G", "T"}

Mismatch(a, b, pos) == Resolved(a[pos]) /\ Resolved(b[pos]) /\ a[pos] # b[pos]

\* a scan that gives up as soon as the running count reaches D
RECURSIVE ScanExitAtD(_, _, _, _, _)
ScanExitAtD(a, b, pos, count, D) ==
    IF count >= D THEN D + 1
    ELSE IF pos > Len(a) THEN count
    ELSE ScanExitAtD(a, b, pos + 1,
                     IF Mismatch(a, b, pos) THEN count + 1 ELSE count, D)

\* the early-exit scan: the running count, D + 1 once it has exceeded D
RECURSIVE Scan(_, _, _, _, _)
Scan(a, b, pos, count, D) ==
    IF count > D THEN D + 1
    ELSE IF pos > Len(a) THEN count
    ELSE Scan(a, b, pos + 1, IF Mismatch(a, b, pos) THEN count + 1 ELSE count, D)

MismatchPos(a, b) == {pos \in 1..Len(a) : Mismatch(a, b, pos)}

BothResolved(a, b) == {pos \in 1..Len(a) : Resolved(a[pos]) /\ Resolved(b[pos])}

\* positions inside a window whose mismatch density exceeds the pair's
\* genome-wide density
Flagged(a, b) ==
    LET mm == MismatchPos(a, b)
        Win(p) == p..(p + WindowSize - 1)
        Hot(p) == /\ Win(p) \subseteq mm
                  /\ WindowSize * Len(a) > Cardinality(mm) * WindowSize
    IN UNION {Win(p) : p \in {q \in 1..(Len(a) - WindowSize + 1) : Hot(q)}}

\* the record of one pair: raw distance, filtered distance, sites considered
PairRecord(seqs, i, j, D, filter) ==
    LET a == seqs[i].seq
        b == seqs[j].seq
        excl == IF filter THEN Flagged(a, b) ELSE {}
    IN [i |-> i, j |-> j,
        d |-> Scan(a, b, 1, 0, D),
        f |-> Cardinality(MismatchPos(a, b) \ excl),
        n |-> Cardinality(BothResolved(a, b) \ excl)]

\* all unordered pairs i < j of 1..n, in lexicographic order
RECURSIVE PairsFrom(_, _, _)
PairsFrom(i, j, n) ==
    IF i >= n THEN << >>
    ELSE IF j > n THEN PairsFrom(i + 1, i + 2, n)
    ELSE << <<i, j>> >> \o PairsFrom(i, j + 1, n)

\* all cross pairs (i in 1..n1, j in n1+1..n1+n2), in lexicographic order
RECURSIVE CrossFrom(_, _, _, _)
CrossFrom(i, j, n1, n2) ==
    IF i > n1 THEN << >>
    ELSE IF j > n1 + n2 THEN CrossFrom(i + 1, n1 + 1, n1, n2)
    ELSE << <<i, j>> >> \o CrossFrom(i, j + 1, n1, n2)

\* the pair-generation order of a call
PairOrder(fasta) ==
    IF Len(fasta) = 1 THEN PairsFrom(1, 2, Len(Fasta(fasta[1])))
    ELSE CrossFrom(1, Len(Fasta(fasta[1])) + 1,
                   Len(Fasta(fasta[1])), Len(Fasta(fasta[2])))

\* one worker: the records of its contiguous range lo..hi of the pair list,
\* without the pairs whose distance exceeds D
RECURSIVE Worker(_, _, _, _, _, _)
Worker(seqs, pairs, lo, hi, D, filter) ==
    IF lo > hi THEN << >>
    ELSE LET r == PairRecord(seqs, pairs[lo][1], pairs[lo][2], D, filter) IN
         (IF r.d > D THEN << >> ELSE <<r>>)
            \o Worker(seqs, pairs, lo + 1, hi, D, filter)

\* static slicing of the pair list over n_threads workers, joined in order
RECURSIVE JoinWorkers(_, _, _, _, _, _)
JoinWorkers(seqs, pairs, w, n_threads, D, filter) ==
    IF w > n_threads THEN << >>
    ELSE LET m == Len(pairs)
             c == (m + n_threads - 1) \div n_threads
             lo == (w - 1) * c + 1
             hi == IF w * c < m THEN w * c ELSE m
         IN Worker(seqs, pairs, lo, hi, D, filter)
              \o JoinWorkers(seqs, pairs, w + 1, n_threads, D, filter)

SameWidth(recs) == \A x, y \in 1..Len(recs) : Len(recs[x].seq) = Len(recs[y].seq)

\* the loading errors of the alignment matrix
LoadError(fasta) ==
    LET prim == Fasta(fasta[1]) IN
    IF Len(fasta) = 1
    THEN IF ~SameWidth(prim) THEN "FormatError"
         ELSE IF Len(prim) < 2 THEN "EmptyInputError"
         ELSE None
    ELSE LET db == Fasta(fasta[2]) IN
         IF ~SameWidth(prim) \/ ~SameWidth(db) THEN "FormatError"
         ELSE IF Len(prim) = 0 \/ Len(db) = 0 THEN "EmptyInputError"
         ELSE IF ~SameWidth(prim \o db) THEN "FormatError"
         ELSE None

\* the six lists returned for the sequences seqs and the pair records recs
Columns(seqs, recs) ==
    << [p \in 1..Len(recs) |-> recs[p].i],
       [p \in 1..Len(recs) |-> recs[p].j],
       [p \in 1..Len(recs) |-> PyInt(recs[p].d)],
       [p \in 1..Len(seqs) |-> seqs[p].name],
       [p \in 1..Len(recs) |-> PyInt(recs[p].f)],
       [p \in 1..Len(recs) |-> PyInt(recs[p].n)] >>

Sequences(fasta) ==
    IF Len(fasta) = 1 THEN Fasta(fasta[1]) ELSE Fasta(fasta[1]) \o Fasta(fasta[2])

pairsnp(fasta, n_threads, dist, filter) ==
    IF LoadError(fasta) # None THEN [err |-> LoadError(fasta), val |-> << >>]
    ELSE [err |-> None,
          val |-> Columns(Sequences(fasta),
                          JoinWorkers(Sequences(fasta), PairOrder(fasta), 1,
                                      n_threads, dist, filter))]

(***************************************************************************)
(* The transmission model, calculate_trans_prob (module transcluster).     *)
(* Rates are integers; the posterior weight of k intermediate hosts for d  *)
(* substitutions is the Poisson weight of mean beta * d / lamb, kept in    *)
(* fixed point: w(0) = Scale, w(k) = w(k-1) * beta * d / (lamb * k).       *)
(***************************************************************************)
\* q[1] + ... + q[n]
RECURSIVE SumTo(_, _)
SumTo(q, n) == IF n = 0 THEN 0 ELSE q[n] + SumTo(q, n - 1)

SumSeq(q) == SumTo(q, Len(q))

\* the truncation loop: weights of k = 0, 1, ... until the last weight is
\* below precision (in hundredths) of the mass so far or k reaches K
RECURSIVE Weights(_, _, _, _, _, _, _)
Weights(ws, total, d, lamb, beta, K, precision) ==
    LET k == Len(ws) - 1
        last == ws[Len(ws)]
        nxt == (last * beta * d) \div (lamb * (k + 1))
    IN IF k >= K \/ 100 * last < precision * total THEN ws
       ELSE Weights(Append(ws, nxt), total + nxt, d, lamb, beta, K, precision)

\* argmax over the truncated support, ties to the smallest k
MostLikelyK(ws) ==
    CHOOSE k \in 0..(Len(ws) - 1) :
        /\ \A j \in 0..(Len(ws) - 1) : ws[j + 1] <= ws[k + 1]
        /\ \A j \in 0..(k - 1) : ws[j + 1] < ws[k + 1]

\* the probability-weighted mean over the truncated support
ExpectedK(ws) ==
    PyFrac(SumSeq([p \in 1..Len(ws) |-> (p - 1) * ws[p]]), SumSeq(ws))

\* the estimate of one pair: <<mostLikelyK, expectedK, date difference>>,
\* three NA when a sample of the pair has no date
Posterior(ws, ta, tb) ==
    << PyInt(MostLikelyK(ws)), ExpectedK(ws),
       PyInt(IF ta >= tb THEN ta - tb ELSE tb - ta) >>

Estimate(a, b, d, sample_dates, K, lamb, beta, precision) ==
    IF a \notin DOMAIN sample_dates \/ b \notin DOMAIN sample_dates
    THEN <<NA, NA, NA>>
    ELSE Posterior(Weights(<<Scale>>, Scale, d, lamb, beta, K, precision),
                   sample_dates[a][2], sample_dates[b][2])

\* calculate_trans_prob(sparse_snp_dist, sample_dates, K, lamb, beta,
\* samplenames, log, precision): <<transmission_dists, expectedk, datediff>>
Unzip3(est) ==
    << [p \in 1..Len(est) |-> est[p][1]],
       [p \in 1..Len(est) |-> est[p][2]],
       [p \in 1..Len(est) |-> est[p][3]] >>

calculate_trans_prob(sparse, sample_dates, K, lamb, beta, samplenames, precision) ==
    Unzip3([p \in 1..Len(sparse[1]) |->
              Estimate(samplenames[sparse[1][p]], samplenames[sparse[2][p]],
                       sparse[3][p].n, sample_dates, K, lamb, beta, precision)])

(***************************************************************************)
(* The state of one run of the distance command.                           *)
(***************************************************************************)
VARIABLES
    pc,                 \* where the run is
    args,               \* the parsed arguments
    parse_error,        \* the argument argparse rejected, if any
    exception,          \* the exception that ended distance(), if any
    dates,              \* the dict loaded from the metadata
    outfile,            \* the lines written, each the list of its fields
    origin,             \* per line of outfile: the alignment and pair it is of
    m,                  \* position of the loop over args.msa_files
    snp_dists,          \* list(pairsnp(...)) of the current alignment
    transmission_dists, \* most likely K per pair
    expectedk,          \* expected K per pair
    datediff,           \* date difference per pair
    w,                  \* position of the writing loop in its zip
    calls,              \* the invocations of calculate_trans_prob so far
    scan,               \* one scan of the engine: its pair, cutoff and result
    trunc               \* one truncation loop of the model: its inputs, weights

vars == <<pc, args, parse_error, exception, dates, outfile, origin, m,
          snp_dists, transmission_dists, expectedk, datediff, w, calls,
          scan, trunc>>

\* an optional int: None, or a value
NoInt == [none |-> TRUE, v |-> 0]
SomeInt(v) == [none |-> FALSE, v |-> v]

\* the six-column header of the older command (src/mtran/distance.py:128)
HeaderSixColumns ==
    <<"sampleA", "sampleB", "date difference", "SNP distance",
      "transmission distance", "expected K">>

Header ==
    <<"sampleA", "sampleB", "date difference", "SNP distance",
      "transmission distance", "expected K", "filtered SNP distance",
      "sites considered", "MSA file">>

\* the sequences over S of length 1..n
RECURSIVE SeqsUpTo(_, _)
SeqsUpTo(S, n) ==
    IF n = 0 THEN {}
    ELSE {<<x>> : x \in S}
           \cup SeqsUpTo(S, n - 1)
           \cup {Append(q, x) : q \in SeqsUpTo(S, n - 1), x \in S}

\* the defaults of distance_parser
Defaults ==
    [msa_files |-> << >>, msa_db |-> None, metadata |-> None,
     snp_threshold |-> DefaultSnpThreshold, recomb_filter |-> FALSE,
     clock_rate |-> 1, trans_rate |-> 2, trans_threshold |-> NoInt,
     precision |-> DefaultPrecision, n_cpu |-> 1]

\* the command lines tried: those with every number in range ...
GoodLines ==
    [msa_files : SeqsUpTo(MsaPaths, MaxMsa),
     msa_db : {None, DbPath},
     metadata : {None} \cup MetaPaths,
     snp_threshold : (1..MaxD) \cup {DefaultSnpThreshold},
     recomb_filter : BOOLEAN,
     clock_rate : {1},
     trans_rate : {2},
     trans_threshold : {NoInt} \cup {SomeInt(v) : v \in 1..MaxK},
     precision : {DefaultPrecision},
     n_cpu : {1, 2}]

\* ... and those with one or two numbers out of range
BaseLine == [Defaults EXCEPT !.msa_files = <<"B.fasta">>]

OneOff ==
    {[BaseLine EXCEPT !.snp_threshold = v] : v \in {-1, 0}}
    \cup {[BaseLine EXCEPT !.trans_threshold = SomeInt(v)] : v \in {-1, 0}}
    \cup {[BaseLine EXCEPT !.n_cpu = v] : v \in {-1, 0}}
    \cup {[BaseLine EXCEPT !.clock_rate = v] : v \in {-1, 0}}
    \cup {[BaseLine EXCEPT !.trans_rate = v] : v \in {-1, 0}}
    \cup {[BaseLine EXCEPT !.precision = v] : v \in {-1, 0}}

TwoOff == {[cl EXCEPT !.snp_threshold = v] : cl \in OneOff, v \in {-1, 0, MaxD}}

CommandLines == GoodLines \cup OneOff \cup TwoOff

\* the arguments whose type= checker raises ArgumentTypeError
Rejected(cl) ==
    {a \in {"snp_threshold"} : check_positive_int(cl.snp_threshold) = "reject"}
    \cup {a \in {"trans_threshold"} :
            /\ ~cl.trans_threshold.none
            /\ check_positive_int(cl.trans_threshold.v) = "reject"}
    \cup {a \in {"n_cpu"} : check_positive_int(cl.n_cpu) = "reject"}
    \cup {a \in {"clock_rate"} : check_positive_float(cl.clock_rate) = "reject"}
    \cup {a \in {"trans_rate"} : check_positive_float(cl.trans_rate) = "reject"}
    \cup {a \in {"precision"} : check_positive_float(cl.precision) = "reject"}

\* the value given for an int or float argument
Given(cl, a) ==
    CASE a = "snp_threshold" -> cl.snp_threshold
      [] a = "trans_threshold" -> cl.trans_threshold.v
      [] a = "n_cpu" -> cl.n_cpu
      [] a = "clock_rate" -> cl.clock_rate
      [] a = "trans_rate" -> cl.trans_rate
      [] OTHER -> cl.precision

NoError == [arg |-> None, value |-> 0]

\* no truncation loop under way
NoTrunc ==
    [d |-> 0, lamb |-> 1, beta |-> 1, K |-> 0, precision |-> 1,
     done |-> FALSE, ws |-> << >>]

\* no scan under way
NoScan == [a |-> << >>, b |-> << >>, D |-> 0, done |-> FALSE, out |-> 0]

Init ==
    /\ pc = "start"
    /\ args = Defaults
    /\ parse_error = NoError
    /\ exception = None
    /\ dates = EmptyDict
    /\ outfile = << >>
    /\ origin = << >>
    /\ m = 0
    /\ snp_dists = << >>
    /\ transmission_dists = << >>
    /\ expectedk = << >>
    /\ datediff = << >>
    /\ w = 0
    /\ calls = << >>
    /\ scan = NoScan
    /\ trunc = NoTrunc

\* parser.parse_args(): exits on the first argument its checker rejects
ParseArgs ==
    /\ pc = "start"
    /\ \E cl \in CommandLines :
         IF Rejected(cl) # {}
         THEN /\ \E a \in Rejected(cl) :
                   parse_error' = [arg |-> a, value |-> Given(cl, a)]
              /\ pc' = "usage_error"
              /\ UNCHANGED args
         ELSE /\ args' = cl
              /\ pc' = "load_meta"
              /\ UNCHANGED parse_error
    /\ UNCHANGED <<exception, dates, outfile, origin, m, snp_dists,
                   transmission_dists, expectedk, datediff, w, calls,
                   scan, trunc>>

\* lines 145-151
LoadMetadata ==
    /\ pc = "load_meta"
    /\ IF args.metadata = None
       THEN pc' = "open" /\ UNCHANGED <<dates, exception>>
       ELSE \E r \in {ReadMetadata(args.metadata)} :
            IF r.err # None
            THEN pc' = "error" /\ exception' = r.err /\ UNCHANGED dates
            ELSE pc' = "open" /\ dates' = r.dates /\ UNCHANGED exception
    /\ UNCHANGED <<args, parse_error, outfile, origin, m, snp_dists,
                   transmission_dists, expectedk, datediff, w, calls,
                   scan, trunc>>

\* lines 155-159: open the output, write the header, enter the loop
OpenOutput ==
    /\ pc = "open"
    /\ outfile' = <<Header>>
    /\ origin' = <<[m |-> 0, p |-> 0]>>
    /\ m' = 1
    /\ pc' = IF Len(args.msa_files) >= 1 THEN "pairsnp" ELSE "done"
    /\ UNCHANGED <<args, parse_error, exception, dates, snp_dists,
                   transmission_dists, expectedk, datediff, w, calls,
                   scan, trunc>>

\* a list that leaves the database alignment out
MsasWithoutDb(msa, msa_db) == <<msa>>

\* lines 163-166
Msas(msa, msa_db) == IF msa_db # None THEN <<msa, msa_db>> ELSE <<msa>>

\* a call that forgets dist=
EngineCallNoCutoff(a, msa) ==
    pairsnp(Msas(msa, a.msa_db), a.n_cpu, DefaultSnpThreshold, a.recomb_filter)

\* lines 168-175
EngineCall(a, msa) ==
    pairsnp(Msas(msa, a.msa_db), a.n_cpu, a.snp_threshold, a.recomb_filter)

\* a loop body that logs a failing alignment and goes on to the next one
CallPairsnpSkip ==
    /\ pc = "pairsnp"
    /\ \E r \in {EngineCall(args, args.msa_files[m])} :
       IF r.err # None
       THEN /\ exception' = r.err
            /\ m' = m + 1
            /\ pc' = IF m + 1 <= Len(args.msa_files) THEN "pairsnp" ELSE "done"
            /\ UNCHANGED snp_dists
       ELSE pc' = "trans" /\ snp_dists' = r.val /\ UNCHANGED <<exception, m>>
    /\ UNCHANGED <<args, parse_error, dates, outfile, origin,
                   transmission_dists, expectedk, datediff, w, calls,
                   scan, trunc>>

\* lines 160-176
CallPairsnp ==
    /\ pc = "pairsnp"
    /\ \E r \in {EngineCall(args, args.msa_files[m])} :
       IF r.err # None
       THEN pc' = "error" /\ exception' = r.err /\ UNCHANGED snp_dists
       ELSE pc' = "trans" /\ snp_dists' = r.val /\ UNCHANGED exception
    /\ UNCHANGED <<args, parse_error, dates, outfile, origin, m,
                   transmission_dists, expectedk, datediff, w, calls,
                   scan, trunc>>

\* a test that leaves out len(snp_dists[0]) > 0
UseMetaAlways(a, sd) == a.metadata # None

\* lines 179 and 211: the branch that uses the metadata
UseMeta(a, sd) == a.metadata # None /\ Len(sd[1]) > 0

\* a call that hands over the raw distances whatever the filter is
SparseArgRaw(a, sd) == <<sd[1], sd[2], sd[3]>>

\* lines 184 and 195: the sparse distances handed to the transmission model
SparseArg(a, sd) ==
    IF a.recomb_filter THEN <<sd[1], sd[2], sd[5]>> ELSE <<sd[1], sd[2], sd[3]>>

\* an estimation step without the assignment of line 204
FilteredColumnKept(a, sd) == sd[5]

\* line 204: the filtered column after the estimation step
FilteredColumn(a, sd) ==
    IF a.recomb_filter THEN sd[5] ELSE [p \in 1..Len(sd[3]) |-> NA]

\* a call that hands the user's -K over as the cap of the loop
CapArgUserK(a) ==
    IF a.trans_threshold.none THEN HardCapK ELSE a.trans_threshold.v

\* lines 186 and 197: K=100
CapArg(a) == HardCapK

\* lines 178-204
EstimateTransmission ==
    /\ pc = "trans"
    /\ IF UseMeta(args, snp_dists)
       THEN \E r \in {calculate_trans_prob(SparseArg(args, snp_dists), dates,
                                           CapArg(args), args.clock_rate,
                                           args.trans_rate, snp_dists[4],
                                           args.precision)} :
               /\ transmission_dists' = r[1]
               /\ expectedk' = r[2]
               /\ datediff' = r[3]
               /\ snp_dists' = [snp_dists EXCEPT ![5] = FilteredColumn(args, snp_dists)]
               /\ calls' = Append(calls, [m |-> m,
                                          sparse |-> SparseArg(args, snp_dists),
                                          K |-> CapArg(args),
                                          lamb |-> args.clock_rate,
                                          beta |-> args.trans_rate])
       ELSE UNCHANGED <<transmission_dists, expectedk, datediff, snp_dists, calls>>
    /\ pc' = "write"
    /\ w' = 1
    /\ UNCHANGED <<args, parse_error, exception, dates, outfile, origin, m,
                   scan, trunc>>

Min(S) == CHOOSE x \in S : \A y \in S : x <= y

\* the length of the zip of lines 212-221
MetaZipLen ==
    Min({Len(snp_dists[1]), Len(snp_dists[2]), Len(datediff), Len(snp_dists[3]),
         Len(expectedk), Len(transmission_dists), Len(snp_dists[5]),
         Len(snp_dists[6])})

\* the length of the zip of lines 240-242
PlainZipLen ==
    Min({Len(snp_dists[1]), Len(snp_dists[2]), Len(snp_dists[3]),
         Len(snp_dists[5]), Len(snp_dists[6])})

\* line 222: "True", "False", or the exception of the comparison
KeepRow(a, expK, tranD) ==
    IF a.trans_threshold.none THEN "True" ELSE IntGe(a.trans_threshold.v, expK)

\* a row with the date difference and the transmission distance swapped
MetaRowSwapped(names, i, j, dateD, snpD, expK, tranD, filtD, ncomp, ref) ==
    <<names[i], names[j], Str(tranD), StrInt(snpD), Str(dateD), Str(expK),
      Str(filtD), Str(ncomp), ref>>

\* lines 224-236
MetaRow(names, i, j, dateD, snpD, expK, tranD, filtD, ncomp, ref) ==
    <<names[i], names[j], Str(dateD), StrInt(snpD), Str(tranD), Str(expK),
      Str(filtD), Str(ncomp), ref>>

\* a row that leaves out the NA of the expected K column
PlainRowOld(names, i, j, snpD, filtD, ncomp, ref) ==
    <<names[i], names[j], "NA", StrInt(snpD), "NA",
      Str(filtD), Str(ncomp), ref>>

\* lines 244-256
PlainRow(names, i, j, snpD, filtD, ncomp, ref) ==
    <<names[i], names[j], "NA", StrInt(snpD), "NA", "NA",
      Str(filtD), Str(ncomp), ref>>

\* lines 211-238: one turn of the loop over the zip
WriteRowMeta ==
    /\ pc = "write"
    /\ UseMeta(args, snp_dists)
    /\ w <= MetaZipLen
    /\ LET keep == KeepRow(args, expectedk[w], transmission_dists[w]) IN
       IF keep = "TypeError"
       THEN /\ pc' = "error"
            /\ exception' = "TypeError"
            /\ UNCHANGED <<outfile, origin, w>>
       ELSE /\ IF keep = "True"
               THEN /\ outfile' = Append(outfile,
                          MetaRow(snp_dists[4], snp_dists[1][w], snp_dists[2][w],
                                  datediff[w], snp_dists[3][w], expectedk[w],
                                  transmission_dists[w], snp_dists[5][w],
                                  snp_dists[6][w], Ref(args.msa_files[m])))
                    /\ origin' = Append(origin, [m |-> m, p |-> w])
               ELSE UNCHANGED <<outfile, origin>>
            /\ w' = w + 1
            /\ UNCHANGED <<pc, exception>>
    /\ UNCHANGED <<args, parse_error, dates, m, snp_dists,
                   transmission_dists, expectedk, datediff, calls,
                   scan, trunc>>

\* a writing loop that walks the zip from its end
WriteRowPlainReversed ==
    /\ pc = "write"
    /\ ~UseMeta(args, snp_dists)
    /\ w <= PlainZipLen
    /\ \E p \in {PlainZipLen - w + 1} :
         /\ outfile' = Append(outfile,
                PlainRow(snp_dists[4], snp_dists[1][p], snp_dists[2][p],
                         snp_dists[3][p], snp_dists[5][p], snp_dists[6][p],
                         Ref(args.msa_files[m])))
         /\ origin' = Append(origin, [m |-> m, p |-> p])
    /\ w' = w + 1
    /\ UNCHANGED <<pc, args, parse_error, exception, dates, m, snp_dists,
                   transmission_dists, expectedk, datediff, calls,
                   scan, trunc>>

\* a plain writer that writes nothing once -K is given
WriteRowPlainUnlessK ==
    /\ pc = "write"
    /\ ~UseMeta(args, snp_dists)
    /\ w <= PlainZipLen
    /\ IF args.trans_threshold.none
       THEN /\ outfile' = Append(outfile,
                   PlainRow(snp_dists[4], snp_dists[1][w], snp_dists[2][w],
                            snp_dists[3][w], snp_dists[5][w], snp_dists[6][w],
                            Ref(args.msa_files[m])))
            /\ origin' = Append(origin, [m |-> m, p |-> w])
       ELSE UNCHANGED <<outfile, origin>>
    /\ w' = w + 1
    /\ UNCHANGED <<pc, args, parse_error, exception, dates, m, snp_dists,
                   transmission_dists, expectedk, datediff, calls, scan, trunc>>

\* lines 239-258: one turn of the loop over the zip
WriteRowPlain ==
    /\ pc = "write"
    /\ ~UseMeta(args, snp_dists)
    /\ w <= PlainZipLen
    /\ outfile' = Append(outfile,
           PlainRow(snp_dists[4], snp_dists[1][w], snp_dists[2][w],
                    snp_dists[3][w], snp_dists[5][w], snp_dists[6][w],
                    Ref(args.msa_files[m])))
    /\ origin' = Append(origin, [m |-> m, p |-> w])
    /\ w' = w + 1
    /\ UNCHANGED <<pc, args, parse_error, exception, dates, m, snp_dists,
                   transmission_dists, expectedk, datediff, calls,
                   scan, trunc>>

\* line 159: the zip is exhausted, on to the next alignment or out of the loop
NextMsa ==
    /\ pc = "write"
    /\ w > (IF UseMeta(args, snp_dists) THEN MetaZipLen ELSE PlainZipLen)
    /\ m' = m + 1
    /\ pc' = IF m + 1 <= Len(args.msa_files) THEN "pairsnp" ELSE "done"
    /\ UNCHANGED <<args, parse_error, exception, dates, outfile, origin,
                   snp_dists, transmission_dists, expectedk, datediff, w, calls,
                   scan, trunc>>

Next ==
    \/ ParseArgs
    \/ LoadMetadata
    \/ OpenOutput
    \/ CallPairsnp
    \/ EstimateTransmission
    \/ WriteRowMeta
    \/ WriteRowPlain
    \/ NextMsa

Spec == Init /\ [][Next]_vars

(***************************************************************************)
(* The scan of the engine on its own: one pair of sequences of the same    *)
(* width and one cutoff, drawn from bounded sets, and the scan applied.    *)
(***************************************************************************)
Symbols == {"A", "C", "N"}

SeqsOfLen(n) == [1..n -> Symbols]

ScanInputs ==
    UNION {[a : SeqsOfLen(n), b : SeqsOfLen(n), D : 0..MaxCutoff,
            done : {FALSE}, out : {0}] : n \in 0..MaxLen}

ScanInit ==
    /\ pc = "scan"
    /\ args = Defaults
    /\ parse_error = NoError
    /\ exception = None
    /\ dates = EmptyDict
    /\ outfile = << >>
    /\ origin = << >>
    /\ m = 0
    /\ snp_dists = << >>
    /\ transmission_dists = << >>
    /\ expectedk = << >>
    /\ datediff = << >>
    /\ w = 0
    /\ calls = << >>
    /\ scan \in ScanInputs
    /\ trunc = NoTrunc

\* the scan of the pair from its first position with a count of 0
ScanPair ==
    /\ pc = "scan"
    /\ ~scan.done
    /\ scan' = [scan EXCEPT !.done = TRUE,
                            !.out = Scan(scan.a, scan.b, 1, 0, scan.D)]
    /\ UNCHANGED <<pc, args, parse_error, exception, dates, outfile, origin, m,
                   snp_dists, transmission_dists, expectedk, datediff, w, calls,
                   trunc>>

ScanNext == ScanPair

ScanSpec == ScanInit /\ [][ScanNext]_vars

(***************************************************************************)
(* The run of the command together with the truncation loop of the         *)
(* transmission model on its own: the loop applied to a distance, two      *)
(* rates and a cap drawn from bounded sets.                                *)
(***************************************************************************)
TruncInputs ==
    [d : 0..MaxD, lamb : 1..MaxRate, beta : 1..MaxRate,
     K : (0..MaxCap) \cup {HardCapK}, precision : {DefaultPrecision},
     done : {FALSE}, ws : {<< >>}]

TruncInit ==
    /\ pc = "trunc"
    /\ args = Defaults
    /\ parse_error = NoError
    /\ exception = None
    /\ dates = EmptyDict
    /\ outfile = << >>
    /\ origin = << >>
    /\ m = 0
    /\ snp_dists = << >>
    /\ transmission_dists = << >>
    /\ expectedk = << >>
    /\ datediff = << >>
    /\ w = 0
    /\ calls = << >>
    /\ scan = NoScan
    /\ trunc \in TruncInputs

\* the loop from k = 0 with the weight of k = 0 as the mass so far
Truncate ==
    /\ pc = "trunc"
    /\ ~trunc.done
    /\ trunc' = [trunc EXCEPT !.done = TRUE,
                              !.ws = Weights(<<Scale>>, Scale, trunc.d,
                                             trunc.lamb, trunc.beta, trunc.K,
                                             trunc.precision)]
    /\ UNCHANGED <<pc, args, parse_error, exception, dates, outfile, origin, m,
                   snp_dists, transmission_dists, expectedk, datediff, w, calls,
                   scan>>

ModelInit == Init \/ TruncInit

ModelNext == Next \/ Truncate

ModelSpec == ModelInit /\ [][ModelNext]_vars

(***************************************************************************)
(* Vocabulary of the properties.                                           *)
(***************************************************************************)
DataRows == 2..Len(outfile)

\* the lines of outfile written for pair record p of alignment k
RowsOfPair(k, p) == {i \in DOMAIN origin : origin[i] = [m |-> k, p |-> p]}

\* the lines of outfile written for alignment k
RowsOfMsa(k) == {i \in DOMAIN origin : origin[i].m = k}

\* the writing loop of the current alignment runs on the metadata branch
WritingMeta == pc = "write" /\ UseMeta(args, snp_dists)

\* a sample of pair record p of the current alignment has no date
NoDate(p) ==
    \/ snp_dists[4][snp_dists[1][p]] \notin DOMAIN dates
    \/ snp_dists[4][snp_dists[2][p]] \notin DOMAIN dates

KSet == ~args.trans_threshold.none

LoadErrors == {"FormatError", "EmptyInputError"}

\* the number of positions at which two sequences are resolved and differ
TrueDistance(fasta, pr) ==
    Cardinality(MismatchPos(Sequences(fasta)[pr[1]].seq, Sequences(fasta)[pr[2]].seq))

(***************************************************************************)
(* C1.  With K set and metadata supplied, the row of a pair is written if  *)
(* and only if the pair's most likely number of intermediate hosts (the    *)
(* transmission distance column) is <= K, whatever its expected K is.      *)
(***************************************************************************)
C1_RowIffMostLikelyKWithinK ==
    (WritingMeta /\ KSet) =>
        \A p \in 1..(w - 1) :
            transmission_dists[p].t = "int" =>
                (RowsOfPair(m, p) # {}
                    <=> transmission_dists[p].n <= args.trans_threshold.v)

(***************************************************************************)
(* C2.  As claimed: with the recombination filter disabled every row's     *)
(* filtered SNP distance field equals its SNP distance field.              *)
(***************************************************************************)
C2_FilteredEqualsRaw ==
    ~args.recomb_filter => \A i \in DataRows : outfile[i][7] = outfile[i][4]

(***************************************************************************)
(* C2, amended.  With the filter disabled, the filtered SNP distance field *)
(* of every row is the literal NA when metadata is supplied and equals the *)
(* row's SNP distance field when no metadata is supplied.                  *)
(***************************************************************************)
C2_FilteredIsNAWithMetadata ==
    ~args.recomb_filter =>
        \A i \in DataRows :
            outfile[i][7] = IF args.metadata # None THEN "NA" ELSE outfile[i][4]

C2_Witness ==
    /\ pc = "done"
    /\ ~args.recomb_filter
    /\ args.metadata # None
    /\ \E i \in DataRows : outfile[i][7] = "NA" /\ outfile[i][4] = "1"

(***************************************************************************)
(* C3.  As claimed: when the engine fails on one alignment, every other    *)
(* alignment that yields pair records, also one listed after the failing   *)
(* one, has its rows in the output.                                        *)
(***************************************************************************)
C3_OtherAlignmentsStillWritten ==
    (exception \in LoadErrors /\ ~KSet) =>
        \A k \in 1..Len(args.msa_files) :
            \E r \in {EngineCall(args, args.msa_files[k])} :
                (r.err = None /\ Len(r.val[1]) > 0) => RowsOfMsa(k) # {}

(***************************************************************************)
(* C3, amended.  A fatal error of the engine on one alignment ends the     *)
(* run: the rows of the alignments listed before it are in the output and  *)
(* no row of the failing alignment or of any listed after it is written.   *)
(***************************************************************************)
C3_EngineErrorEndsRun ==
    exception \in LoadErrors =>
        /\ pc = "error"
        /\ \A i \in DataRows : origin[i].m < m
        /\ ~KSet =>
             \A k \in 1..(m - 1) :
                 Cardinality(RowsOfMsa(k))
                     = Len(EngineCall(args, args.msa_files[k]).val[1])

C3_Witness ==
    /\ pc = "error"
    /\ exception \in LoadErrors
    /\ m < Len(args.msa_files)
    /\ EngineCall(args, args.msa_files[m + 1]).err = None
    /\ Len(EngineCall(args, args.msa_files[m + 1]).val[1]) > 0

(***************************************************************************)
(* C4.  With metadata supplied, a pair record whose estimate is not        *)
(* computable (a sample has no date) is written as exactly one row, also   *)
(* when K is set: the K filter neither drops it nor aborts the run.        *)
(***************************************************************************)
C4_UncomputablePairStillWritten ==
    /\ exception # "TypeError"
    /\ WritingMeta =>
         \A p \in 1..(w - 1) : NoDate(p) => Cardinality(RowsOfPair(m, p)) = 1

(***************************************************************************)
(* C5.  With metadata supplied, the row of a pair that lacks a date for a  *)
(* sample has NA in the date difference, transmission distance and         *)
(* expected K fields and the pair's integer SNP distance in the SNP        *)
(* distance field; the row of a pair with both dates has numbers in the    *)
(* three fields: the day difference, the most likely K and the expected K. *)
(***************************************************************************)
C5_NAForMissingDate ==
    WritingMeta =>
        \A i \in RowsOfMsa(m) :
            \E p \in {origin[i].p} :
                /\ outfile[i][4] = ToString(snp_dists[3][p].n)
                /\ IF NoDate(p)
                   THEN /\ outfile[i][3] = "NA"
                        /\ outfile[i][5] = "NA"
                        /\ outfile[i][6] = "NA"
                   ELSE /\ datediff[p].t = "int"
                        /\ outfile[i][3] = ToString(datediff[p].n)
                        /\ transmission_dists[p].t = "int"
                        /\ outfile[i][5] = ToString(transmission_dists[p].n)
                        /\ expectedk[p].t = "float"
                        /\ outfile[i][6] = ToString(expectedk[p].n) \o "/"
                                              \o ToString(expectedk[p].d)

C5_Witness ==
    /\ WritingMeta
    /\ \E i, j \in RowsOfMsa(m) :
         /\ NoDate(origin[i].p)
         /\ outfile[i][3] = "NA"
         /\ ~NoDate(origin[j].p)
         /\ outfile[j][3] # outfile[j][5]

(***************************************************************************)
(* C6.  Without metadata every pair record returned by the engine yields   *)
(* exactly one row: the two names, NA, the SNP distance, NA, NA, the       *)
(* filtered SNP distance, the sites considered and the MSA file.           *)
(***************************************************************************)
C6_PlainRowPerRecord ==
    args.metadata = None =>
        /\ pc = "write" =>
             \A p \in 1..(w - 1) :
                 /\ Cardinality(RowsOfPair(m, p)) = 1
                 /\ \A i \in RowsOfPair(m, p) :
                      outfile[i] = << snp_dists[4][snp_dists[1][p]],
                                      snp_dists[4][snp_dists[2][p]],
                                      "NA",
                                      ToString(snp_dists[3][p].n),
                                      "NA",
                                      "NA",
                                      ToString(snp_dists[5][p].n),
                                      ToString(snp_dists[6][p].n),
                                      Ref(args.msa_files[m]) >>
        /\ (pc \in {"pairsnp", "done"} /\ m > 1) =>
             Cardinality(RowsOfMsa(m - 1)) = Len(snp_dists[1])

C6_Witness ==
    /\ args.metadata = None
    /\ pc = "done"
    /\ Len(snp_dists[1]) = 3
    /\ Cardinality(RowsOfMsa(m - 1)) = 3

\* pair a comes before pair b in the lexicographic order
PairBefore(a, b) == a[1] < b[1] \/ (a[1] = b[1] /\ a[2] < b[2])

(***************************************************************************)
(* C7.  The rows of an alignment appear in the pair-generation order of    *)
(* the engine, which does not depend on the number of threads; the rows of *)
(* different alignments are not interleaved and follow the order in which  *)
(* the alignments were supplied.                                           *)
(***************************************************************************)
C7_RowsInPairOrder ==
    /\ \A i, j \in DataRows :
         i < j => \/ origin[i].m < origin[j].m
                  \/ origin[i].m = origin[j].m /\ origin[i].p < origin[j].p
    /\ \A i \in DataRows : outfile[i][9] = Ref(args.msa_files[origin[i].m])
    /\ pc \in {"trans", "write"} =>
         /\ \A p, q \in 1..Len(snp_dists[1]) :
              p < q => PairBefore(<<snp_dists[1][p], snp_dists[2][p]>>,
                                  <<snp_dists[1][q], snp_dists[2][q]>>)
         /\ \E r \in {EngineCall([args EXCEPT !.n_cpu = 1], args.msa_files[m])} :
              snp_dists[1] = r.val[1] /\ snp_dists[2] = r.val[2]
                 /\ snp_dists[3] = r.val[3]
         /\ \A i \in RowsOfMsa(m) :
              /\ outfile[i][1] = snp_dists[4][snp_dists[1][origin[i].p]]
              /\ outfile[i][2] = snp_dists[4][snp_dists[2][origin[i].p]]

C7_Witness ==
    /\ pc = "done"
    /\ args.n_cpu = 2
    /\ Cardinality(RowsOfMsa(1)) >= 2
    /\ Cardinality(RowsOfMsa(2)) >= 2

(***************************************************************************)
(* C8.  With a finite SNP threshold D no row has a raw SNP distance above  *)
(* D, and the pair records of an alignment are exactly the pairs whose     *)
(* distance is <= D.                                                       *)
(***************************************************************************)
C8_NoRowAboveD ==
    /\ args.snp_threshold # DefaultSnpThreshold =>
         \A i \in DataRows :
             outfile[i][4] \in {ToString(v) : v \in 0..args.snp_threshold}
    /\ pc \in {"trans", "write"} =>
         \E fasta \in {Msas(args.msa_files[m], args.msa_db)} :
             {<<snp_dists[1][p], snp_dists[2][p]>> : p \in 1..Len(snp_dists[1])}
               = {PairOrder(fasta)[x] : x \in
                    {y \in 1..Len(PairOrder(fasta)) :
                        TrueDistance(fasta, PairOrder(fasta)[y])
                            <= args.snp_threshold}}

C8_Witness ==
    /\ pc = "done"
    /\ args.snp_threshold = 1
    /\ args.msa_files = <<"A_combined.fasta">>
    /\ args.msa_db = None
    /\ Len(outfile) = 3
    /\ \A i \in DataRows : outfile[i][4] = "1"

C10_RejectedOnlyBelowZero ==
    parse_error.arg = "snp_threshold" => parse_error.value < 0

(***************************************************************************)
(* C10, amended.  The SNP threshold D is rejected exactly when D <= 0:     *)
(* D = 0 is rejected like the negative values, and a run that proceeds has *)
(* D >= 1.                                                                 *)
(***************************************************************************)
C10_RejectedExactlyWhenNotPositive ==
    /\ parse_error.arg = "snp_threshold" => parse_error.value <= 0
    /\ pc \notin {"start", "usage_error"} => args.snp_threshold >= 1
    /\ pc = "usage_error" <=> parse_error.arg # None

C10_Witness ==
    /\ pc = "usage_error"
    /\ parse_error = [arg |-> "snp_threshold", value |-> 0]

(***************************************************************************)
(* C11.  A clock rate <= 0 or a transmission rate <= 0 is rejected at      *)
(* argument parsing: a run that proceeds has both rates > 0, so every      *)
(* invocation of the transmission model has positive rates, and at the     *)
(* rejection no metadata has been read, no alignment has been scanned and  *)
(* the output file has not been opened.                                    *)
(***************************************************************************)
C11_NonPositiveRateRejectedAtParsing ==
    /\ parse_error.arg \in {"clock_rate", "trans_rate"} =>
         /\ parse_error.value <= 0
         /\ pc = "usage_error"
    /\ pc = "usage_error" =>
         /\ dates = EmptyDict
         /\ outfile = << >>
         /\ snp_dists = << >>
         /\ m = 0
         /\ calls = << >>
    /\ pc \notin {"start", "usage_error"} =>
         args.clock_rate > 0 /\ args.trans_rate > 0
    /\ \A c \in 1..Len(calls) : calls[c].lamb > 0 /\ calls[c].beta > 0

C11_Witness ==
    /\ pc = "usage_error"
    /\ parse_error = [arg |-> "trans_rate", value |-> 0]
    /\ outfile = << >>

\* the lines after the first of a metadata file that hold a malformed date
MalformedRows(path) ==
    {l \in 2..Len(MetaFile(path)) :
        Len(MetaFile(path)[l]) >= 2 /\ fromisoformat(MetaFile(path)[l][2]) < 0}

(***************************************************************************)
(* C12.  A malformed date in a data row of the metadata file (a line after *)
(* the first) is fatal: the run ends with the error of the date parser     *)
(* while the metadata is loaded, with the output file not opened and no    *)
(* alignment processed; no run goes past the loading with such a row.      *)
(***************************************************************************)
C12_MalformedDateIsFatal ==
    /\ (args.metadata # None /\ pc \notin {"start", "load_meta"}
           /\ MalformedRows(args.metadata) # {}) =>
         /\ pc = "error"
         /\ exception \in {"ValueError", "IndexError"}
    /\ exception = "ValueError" =>
         /\ pc = "error"
         /\ MalformedRows(args.metadata) # {}
         /\ outfile = << >>
         /\ dates = EmptyDict
         /\ m = 0
         /\ snp_dists = << >>
         /\ calls = << >>

C12_Witness ==
    /\ pc = "error"
    /\ exception = "ValueError"
    /\ args.metadata = "baddate.csv"
    /\ Len(args.msa_files) >= 1
    /\ outfile = << >>

\* the names of the sequences of a multi-FASTA file
NamesOf(path) == {Fasta(path)[x].name : x \in 1..Len(Fasta(path))}

(***************************************************************************)
(* C13.  With a database alignment supplied, every pair record of a        *)
(* primary alignment pairs one sequence of the primary set with one of the *)
(* database set, no cross pair occurs twice, and the rows of every primary *)
(* alignment name a sequence of that alignment and a sequence of the one   *)
(* database alignment.                                                     *)
(***************************************************************************)
C13_OnlyCrossPairsWithDb ==
    args.msa_db # None =>
        /\ pc \in {"trans", "write"} =>
             \E n1 \in {Len(Fasta(args.msa_files[m]))} :
                 /\ Len(snp_dists[4]) = n1 + Len(Fasta(args.msa_db))
                 /\ \A x \in 1..Len(snp_dists[4]) :
                      snp_dists[4][x] =
                          IF x <= n1 THEN Fasta(args.msa_files[m])[x].name
                          ELSE Fasta(args.msa_db)[x - n1].name
                 /\ \A p \in 1..Len(snp_dists[1]) :
                      /\ snp_dists[1][p] \in 1..n1
                      /\ snp_dists[2][p] \in (n1 + 1)..Len(snp_dists[4])
                 /\ \A p, q \in 1..Len(snp_dists[1]) :
                      p # q => <<snp_dists[1][p], snp_dists[2][p]>>
                                  # <<snp_dists[1][q], snp_dists[2][q]>>
        /\ \A i \in DataRows :
             /\ outfile[i][1] \in NamesOf(args.msa_files[origin[i].m])
             /\ outfile[i][2] \in NamesOf(args.msa_db)
        /\ \A i, j \in DataRows :
             (i # j /\ origin[i].m = origin[j].m) =>
                 <<outfile[i][1], outfile[i][2]>> # <<outfile[j][1], outfile[j][2]>>

C13_Witness ==
    /\ pc = "done"
    /\ args.msa_db = DbPath
    /\ args.msa_files = <<"A_combined.fasta", "B.fasta">>
    /\ Cardinality(RowsOfMsa(1)) = 6
    /\ Cardinality(RowsOfMsa(2)) = 4

(***************************************************************************)
(* C14.  For every pair of sequences and every cutoff D >= 0 the           *)
(* early-exit scan returns the number of positions at which both symbols   *)
(* are resolved and differ when that number is <= D, and the sentinel      *)
(* D + 1 when it exceeds D: never a value above D + 1, and never the       *)
(* sentinel for a pair whose distance is <= D.                             *)
(***************************************************************************)
C14_ScanExactOrSentinel ==
    scan.done =>
        \E dist \in {Cardinality(MismatchPos(scan.a, scan.b))} :
            /\ dist <= scan.D => scan.out = dist
            /\ dist > scan.D => scan.out = scan.D + 1
            /\ scan.out <= scan.D + 1
            /\ scan.out = scan.D + 1 => dist > scan.D

C14_Witness ==
    /\ scan.done
    /\ scan.D = 0
    /\ Len(scan.a) = 3
    /\ Cardinality(MismatchPos(scan.a, scan.b)) = 3
    /\ scan.out = 1

(***************************************************************************)
(* C15.  The distances handed to the transmission model for an alignment   *)
(* are the filtered distances of the engine when the recombination filter  *)
(* is enabled and its raw distances when it is disabled; in both cases,    *)
(* with or without metadata, the SNP distance field of a row holds the raw *)
(* distance of its pair.                                                   *)
(***************************************************************************)
C15_ModelGetsFilteredColumnGetsRaw ==
    pc = "write" =>
        \E r \in {EngineCall(args, args.msa_files[m]).val} :
            /\ UseMeta(args, snp_dists) =>
                 /\ calls # << >>
                 /\ calls[Len(calls)].m = m
                 /\ calls[Len(calls)].sparse[1] = r[1]
                 /\ calls[Len(calls)].sparse[2] = r[2]
                 /\ calls[Len(calls)].sparse[3]
                      = IF args.recomb_filter THEN r[5] ELSE r[3]
            /\ \A i \in RowsOfMsa(m) :
                 outfile[i][4] = ToString(r[3][origin[i].p].n)

C15_Witness ==
    /\ WritingMeta
    /\ args.recomb_filter
    /\ \E i \in RowsOfMsa(m) :
         \E p \in {origin[i].p} :
             /\ snp_dists[3][p].n = 2
             /\ snp_dists[5][p].n = 0
             /\ calls[Len(calls)].sparse[3][p].n = 0
             /\ outfile[i][4] = "2"

\* the lines after the first of a metadata file with fewer than two fields
ShortRows(path) ==
    {l \in 2..Len(MetaFile(path)) : Len(MetaFile(path)[l]) < 2}

\* the lines after the first of a metadata file whose first field is n
RowsNaming(path, n) ==
    {l \in 2..Len(MetaFile(path)) : MetaFile(path)[l][1] = n}

\* the metadata has been loaded without an error
MetadataLoaded ==
    args.metadata # None /\ pc \in {"open", "pairsnp", "trans", "write", "done"}

(***************************************************************************)
(* C16.  Metadata loading never takes a date from the first line of the    *)
(* file, also when that line is a well-formed data row; every later line   *)
(* maps its first field to the date parsed from its second field, the last *)
(* line naming a sample deciding its date; a later line with fewer than    *)
(* two fields ends the loading with an error instead of being skipped.     *)
(***************************************************************************)
C16_FirstLineDroppedLastRowWins ==
    /\ MetadataLoaded =>
         /\ ShortRows(args.metadata) = {}
         /\ DOMAIN dates = {MetaFile(args.metadata)[l][1] :
                                l \in 2..Len(MetaFile(args.metadata))}
         /\ \A n \in DOMAIN dates :
              \E l \in RowsNaming(args.metadata, n) :
                  /\ \A k \in RowsNaming(args.metadata, n) : k <= l
                  /\ dates[n] = << MetaFile(args.metadata)[l][2],
                                   fromisoformat(MetaFile(args.metadata)[l][2]) >>
    /\ exception = "IndexError" =>
         /\ pc = "error"
         /\ ShortRows(args.metadata) # {}
         /\ outfile = << >>
         /\ dates = EmptyDict
    /\ (args.metadata # None /\ pc = "error" /\ outfile = << >>) =>
         ShortRows(args.metadata) \cup MalformedRows(args.metadata) # {}

C16_Witness ==
    /\ pc = "done"
    /\ args.metadata = "full.csv"
    /\ "id" \notin DOMAIN dates
    /\ Cardinality(RowsNaming("full.csv", "s1")) = 2
    /\ dates["s1"] = <<"2020-01-01", 1>>

\* the loop stops after the weight of k = n - 1: the cap, or a negligible tail
Stops(ws, n, K, precision) ==
    n - 1 >= K \/ 100 * ws[n] < precision * SumTo(ws, n)

(***************************************************************************)
(* C17.  The truncation loop of the transmission model starts at k = 0 and *)
(* stops at the first k at which the tail is below the precision or k has  *)
(* reached the cap, so it evaluates at most k = 0..cap and its most likely *)
(* K is at most the cap; the distance command invokes the model with the   *)
(* cap 100 whatever the K threshold of the user is, and no transmission    *)
(* distance it reports exceeds 100.                                        *)
(***************************************************************************)
C17_LoopStopsByCap ==
    /\ trunc.done =>
         /\ Len(trunc.ws) \in 1..(trunc.K + 1)
         /\ trunc.ws[1] = Scale
         /\ Stops(trunc.ws, Len(trunc.ws), trunc.K, trunc.precision)
         /\ \A n \in 1..(Len(trunc.ws) - 1) :
              ~Stops(trunc.ws, n, trunc.K, trunc.precision)
         /\ MostLikelyK(trunc.ws) \in 0..trunc.K
    /\ \A c \in 1..Len(calls) : calls[c].K = 100
    /\ WritingMeta =>
         \A p \in 1..Len(transmission_dists) :
             transmission_dists[p].t = "int" =>
                 transmission_dists[p].n \in 0..100

C17_Witness ==
    /\ trunc.done
    /\ trunc.K = 2
    /\ Len(trunc.ws) = 3
    /\ 100 * trunc.ws[3] >= trunc.precision * SumSeq(trunc.ws)

\* the invocations of calculate_trans_prob made for alignment k
CallsOf(k) == {c \in 1..Len(calls) : calls[c].m = k}

(***************************************************************************)
(* C18.  The date difference, transmission distance and expected K of the  *)
(* rows of an alignment are those computed from the pair records of that   *)
(* alignment, by the one invocation of the model made for it; an alignment *)
(* that yields no pair record invokes no transmission computation, writes  *)
(* no row and raises nothing, and the loop goes on to the next alignment.  *)
(***************************************************************************)
C18_ValuesOfTheSameAlignment ==
    /\ WritingMeta =>
         /\ Cardinality(CallsOf(m)) = 1
         /\ calls[Len(calls)].m = m
         /\ Len(transmission_dists) = Len(snp_dists[1])
         /\ Len(expectedk) = Len(snp_dists[1])
         /\ Len(datediff) = Len(snp_dists[1])
         /\ \A p \in 1..Len(snp_dists[1]) :
              <<transmission_dists[p], expectedk[p], datediff[p]>>
                 = Estimate(snp_dists[4][snp_dists[1][p]],
                            snp_dists[4][snp_dists[2][p]],
                            calls[Len(calls)].sparse[3][p].n, dates, 100,
                            args.clock_rate, args.trans_rate, args.precision)
         /\ \A i \in RowsOfMsa(m) :
              /\ outfile[i][3] = Str(datediff[origin[i].p])
              /\ outfile[i][5] = Str(transmission_dists[origin[i].p])
              /\ outfile[i][6] = Str(expectedk[origin[i].p])
    /\ (pc \in {"trans", "write"} /\ Len(snp_dists[1]) = 0) =>
         CallsOf(m) = {} /\ RowsOfMsa(m) = {}
    /\ (pc \in {"pairsnp", "done"} /\ m > 1 /\ Len(snp_dists[1]) = 0) =>
         CallsOf(m - 1) = {} /\ RowsOfMsa(m - 1) = {}
    /\ (pc = "error" /\ exception \notin LoadErrors /\ m >= 1) =>
         Len(snp_dists[1]) > 0

C18_Witness ==
    /\ pc = "done"
    /\ args.metadata = "full.csv"
    /\ Len(args.msa_files) = 2
    /\ RowsOfMsa(1) = {}
    /\ CallsOf(1) = {}
    /\ CallsOf(2) # {}
    /\ RowsOfMsa(2) # {}

\* the rows of the six lists val of the engine, without any estimate
RowsFor(val, ref) ==
    [p \in 1..Len(val[1]) |->
        << val[4][val[1][p]], val[4][val[2][p]], "NA", ToString(val[3][p].n),
           "NA", "NA", ToString(val[5][p].n), ToString(val[6][p].n), ref >>]

\* the rows of the alignments files, from what the engine returns for them
RECURSIVE PlainOutput(_, _, _, _, _)
PlainOutput(files, db, D, filter, n_threads) ==
    IF files = << >> THEN << >>
    ELSE RowsFor(pairsnp(Msas(Head(files), db), n_threads, D, filter).val,
                 Ref(Head(files)))
           \o PlainOutput(Tail(files), db, D, filter, n_threads)

(***************************************************************************)
(* C19.  Without metadata the metadata table is never read, the model is   *)
(* never invoked and K has no effect: the output of a finished run is the  *)
(* header followed by one row per pair record the engine returns for the   *)
(* alignments, the same whether K is unset or set to any value.            *)
(***************************************************************************)
C19_KHasNoEffectWithoutMetadata ==
    args.metadata = None =>
        /\ dates = EmptyDict
        /\ calls = << >>
        /\ exception \in {None} \cup LoadErrors
        /\ pc = "done" =>
             Tail(outfile) = PlainOutput(args.msa_files, args.msa_db,
                                         args.snp_threshold, args.recomb_filter,
                                         args.n_cpu)

C19_Witness ==
    /\ args.metadata = None
    /\ pc = "done"
    /\ args.trans_threshold = SomeInt(1)
    /\ args.msa_files = <<"A_combined.fasta">>
    /\ Len(outfile) = 4

====
